---- MODULE Spec2Model ----
(***************************************************************************)
(* Model of oamap/fillcolumn.py: the fillable column buffers FillableList, *)
(* FillableArray, FillableFile and FillableNumpyFile.                      *)
(*                                                                         *)
(* One fillable object is modelled at a time.  `kind` says which class it  *)
(* is, `self` holds its attributes (named as in the source without the     *)
(* leading underscore), `file` is the state of the open file object        *)
(* self._file, `disk` the bytes of the file named self._filename.          *)
(* `inputs` and `calls` are history variables: the elements accepted by    *)
(* the calls that returned normally, and the shape of the call sequence.   *)
(* `ret` is the outcome of the last call: its name, its arguments, the     *)
(* exception it raised ("" when it returned) and the value it returned.    *)
(* `iofaults` counts the writes the environment has made fail.             *)
(*                                                                         *)
(* The schema walk of _makefillables is modelled separately (SpecWalk):    *)
(* there `kind` is "schema", `self` holds the schema and the two flags,    *)
(* and `ret` the outcome of the fillable* function that walked it.         *)
(*                                                                         *)
(* Python indices are 0-based and are kept 0-based in the cursors; the     *)
(* TLA+ sequences that hold the data are 1-based, so data[i] of the source *)
(* is data[i + 1] here.                                                    *)
(***************************************************************************)
EXTENDS Integers, Sequences, FiniteSets, TLC

VARIABLES kind, self, file, disk, inputs, calls, ret, iofaults

vars == <<kind, self, file, disk, inputs, calls, ret, iofaults>>

(***************************************************************************)
(* Bounds of the model.                                                    *)
(***************************************************************************)
\* the largest number of elements a fillable is grown to
MaxLen == 5
\* the largest chunksize (FillableArray) and flushsize (FillableFile)
MaxChunk == 3
\* the largest number of values handed to one extend call
MaxBatch == 3
\* the largest absolute value of a slice step
MaxStep == 2

\* the scalar values an element is made of
Values == {0, 1}

(***************************************************************************)
(* Python arithmetic and sequences.                                        *)
(***************************************************************************)
Min(a, b) == IF a <= b THEN a ELSE b

Max(a, b) == IF a >= b THEN a ELSE b

\* Python's a // b: the quotient rounded towards minus infinity
PyFloorDiv(a, b) == IF b > 0 THEN a \div b ELSE (0 - a) \div (0 - b)

\* Python's a % b: the remainder has the sign of b
PyMod(a, b) == a - b * PyFloorDiv(a, b)

\* An optional integer (None or an int) is a sequence of length 0 or 1.
None == << >>

Some(i) == << i >>

\* seq[:n] and seq[n:] for 0 <= n
\* a function on 1..n as a sequence
Tuple(f) == SubSeq(f, 1, Len(f))

Take(seq, n) == SubSeq(seq, 1, Min(n, Len(seq)))

Drop(seq, n) == SubSeq(seq, Min(n, Len(seq)) + 1, Len(seq))

\* The 0-based indices that seq[start:stop:step] selects in a sequence of
\* length n (CPython's PySlice_AdjustIndices; numpy's basic slicing of one
\* axis is the same).  start and stop are integers, step # 0.
PySliceStart(n, start, step) ==
    IF start < 0
    THEN (IF start + n < 0 THEN (IF step < 0 THEN 0 - 1 ELSE 0) ELSE start + n)
    ELSE (IF start >= n THEN (IF step < 0 THEN n - 1 ELSE n) ELSE start)

PySliceIndices(n, start, stop, step) ==
    LET lo == PySliceStart(n, start, step)
        hi == PySliceStart(n, stop, step)
        count == IF step > 0
                 THEN (IF lo < hi THEN (hi - lo + step - 1) \div step ELSE 0)
                 ELSE (IF hi < lo THEN (lo - hi - step - 1) \div (0 - step) ELSE 0)
    IN  Tuple([k \in 1..count |-> lo + (k - 1) * step])

\* seq[start:stop:step]
PySlice(seq, start, stop, step) ==
    LET idx == PySliceIndices(Len(seq), start, stop, step)
    IN  Tuple([k \in 1..Len(idx) |-> seq[idx[k] + 1]])

\* The shape-(length,) array `out` after out[outi : outi + len(array)] = array.
\* numpy copies when the lengths agree, broadcasts a source of length 1, and
\* raises ValueError otherwise; the target slice is clipped to the array.
NumpyAssignOk(outlen, outi, array) ==
    LET target == Max(0, Min(outlen, outi + Len(array)) - Min(outlen, outi))
    IN  Len(array) = target \/ Len(array) = 1

NumpyAssign(out, outi, array) ==
    LET hi == Min(Len(out), outi + Len(array))
    IN  Tuple([k \in 1..Len(out) |->
                  IF k > outi /\ k <= hi
                  THEN (IF Len(array) = 1 THEN array[1] ELSE array[k - outi])
                  ELSE out[k]])

\* the outcome of a call
Returned(op, args, value) == [op |-> op, args |-> args, raised |-> "", value |-> value]

Raised(op, args, exc) == [op |-> op, args |-> args, raised |-> exc, value |-> << >>]

\* A read of an in-memory fillable changes nothing but `ret`.  A behaviour is
\* not continued past such a read: whatever can follow it can follow the
\* state it was made in, which the writes alone reach.
NotReading == ret.op \notin {"getslice", "getindex"}

\* the call history after a call: n appends, then one extend, or anything else
AfterAppend == IF calls = "appends" THEN "appends" ELSE "other"

AfterExtend == IF calls = "appends" THEN "extended" ELSE "other"

\* the batches an extend call is handed
Batches(E) == UNION {[1..n -> E] : n \in 0..MaxBatch}

\* the start and stop of a slice: None or an integer around the valid range
MaxNeg == 1

SliceBounds == {None} \cup {Some(i) : i \in (0 - MaxNeg)..(MaxLen + 1)}

\* the single indices asked of an in-memory fillable: the valid ones and one
\* more at either end
GetIndices == (0 - MaxLen - 1)..MaxLen

\* seq[i] of a Python list or array: a negative i counts from the end; the
\* exception raised ("" for none) and the item (None when it raised)
PyGetItem(seq, i) ==
    LET j == IF i < 0 THEN i + Len(seq) ELSE i
    IN  IF j < 0 \/ j >= Len(seq) THEN [raised |-> "IndexError", value |-> None]
        ELSE [raised |-> "", value |-> Some(seq[j + 1])]

\* the step of a slice: None or an integer, zero included
SliceSteps == {None} \cup {Some(i) : i \in (0 - MaxStep)..MaxStep}

(***************************************************************************)
(* FillableList                                                            *)
(***************************************************************************)
\* FillableList.__init__: dims is () for the in-memory fillables of the
\* model, so an element is one scalar value.
FillableList_init == [data |-> << >>, index |-> 0]

\* FillableList.__len__
FillableList_len(s) == s.index

\* the elements a reader may see: the first len() elements of _data
FillableList_content(s) == Take(s.data, FillableList_len(s))

\* FillableList without the correction for a previous exception: what a
\* failed call left above the cursor stays in the backing list
FillableList_truncate_dropped(s) == s

\* "possibly correct for a previous exception": del self._data[self._index:]
FillableList_truncate(s) ==
    IF s.index < Len(s.data) THEN [s EXCEPT !.data = Take(s.data, s.index)] ELSE s

\* FillableList.append, all of it
FillableList_append_run(s, value) ==
    LET s1 == FillableList_truncate(s)
        s2 == [s1 EXCEPT !.data = Append(s1.data, value)]
    IN  [s2 EXCEPT !.index = s2.index + 1]

\* FillableList.append cut short by an exception raised after self._data.append
\* and before the cursor is advanced
FillableList_append_cut(s, value) ==
    LET s1 == FillableList_truncate(s)
    IN  [s1 EXCEPT !.data = Append(s1.data, value)]

\* FillableList.extend, all of it
FillableList_extend_run(s, values) ==
    LET s1 == FillableList_truncate(s)
        s2 == [s1 EXCEPT !.data = s1.data \o values]
    IN  [s2 EXCEPT !.index = s2.index + Len(values)]

\* FillableList.extend cut short by an exception raised while
\* self._data.extend had taken the first n of the values
FillableList_extend_cut(s, values, n) ==
    LET s1 == FillableList_truncate(s)
    IN  [s1 EXCEPT !.data = s1.data \o Take(values, n)]

\* FillableList.__getitem__ with a slice: the exception raised ("" for none)
\* and the array returned.
FillableList_getslice(s, start, stop, step) ==
    LET lenself == FillableList_len(s)
        start0 == IF start = None THEN 0 ELSE start[1]
        stop0 == IF stop = None THEN lenself ELSE stop[1]
        step0 == IF step = None THEN 1 ELSE step[1]
        start1 == IF start0 < 0 THEN start0 + lenself ELSE start0
        stop1 == IF stop0 < 0 THEN stop0 + lenself ELSE stop0
        start2 == Min(lenself, Max(0, start1))
        stop2 == Min(lenself, Max(0, stop1))
        length == PyFloorDiv(stop2 - start2, step0)
        picked == PySlice(s.data, start2, stop2, step0)
    IN  IF step0 = 0 THEN [raised |-> "ValueError", value |-> << >>]
        \* numpy.empty refuses a negative dimension
        ELSE IF length < 0 THEN [raised |-> "ValueError", value |-> << >>]
        \* out[:] = list needs len(list) = length, or len(list) = 1 (broadcast)
        ELSE IF ~(Len(picked) = length \/ Len(picked) = 1)
             THEN [raised |-> "ValueError", value |-> << >>]
        ELSE [raised |-> "",
              value |-> Tuple([k \in 1..length |->
                                  IF Len(picked) = 1 THEN picked[1] ELSE picked[k]])]

\* FillableList.__getitem__ with one index: self._data[index]
FillableList_getindex(s, index) == PyGetItem(s.data, index)

InitList ==
    /\ kind = "list"
    /\ self = FillableList_init
    /\ file = [closed |-> TRUE, pos |-> 0]
    /\ disk = << >>
    /\ inputs = << >>
    /\ calls = "appends"
    /\ ret = Returned("init", << >>, << >>)
    /\ iofaults = 0

ListAppend ==
    /\ kind = "list"
    /\ NotReading
    /\ self.index < MaxLen
    /\ \E value \in Values :
         /\ self' = FillableList_append_run(self, value)
         /\ inputs' = Append(inputs, value)
         /\ ret' = Returned("append", << >>, << >>)
    /\ calls' = AfterAppend
    /\ UNCHANGED <<kind, file, disk, iofaults>>

ListAppendRaises ==
    /\ kind = "list"
    /\ NotReading
    /\ self.index < MaxLen
    /\ \E value \in Values :
         /\ self' = FillableList_append_cut(self, value)
         /\ ret' = Raised("append", << >>, "Exception")
    /\ calls' = "other"
    /\ UNCHANGED <<kind, file, disk, inputs, iofaults>>

ListExtend ==
    /\ kind = "list"
    /\ NotReading
    /\ \E values \in Batches(Values) :
         /\ self.index + Len(values) <= MaxLen
         /\ self' = FillableList_extend_run(self, values)
         /\ inputs' = inputs \o values
         /\ ret' = Returned("extend", << >>, << >>)
    /\ calls' = AfterExtend
    /\ UNCHANGED <<kind, file, disk, iofaults>>

ListExtendRaises ==
    /\ kind = "list"
    /\ NotReading
    /\ \E values \in Batches(Values) :
         /\ self.index + Len(values) <= MaxLen
         /\ \E n \in 0..Len(values) :
              self' = FillableList_extend_cut(self, values, n)
         /\ ret' = Raised("extend", << >>, "Exception")
    /\ calls' = "other"
    /\ UNCHANGED <<kind, file, disk, inputs, iofaults>>

ListGetIndex ==
    /\ kind = "list"
    /\ NotReading
    /\ \E index \in GetIndices :
         LET r == FillableList_getindex(self, index)
         IN  ret' = [op |-> "getindex", args |-> << index >>,
                     raised |-> r.raised, value |-> r.value]
    /\ UNCHANGED <<kind, self, file, disk, inputs, calls, iofaults>>

ListGetSlice ==
    /\ kind = "list"
    /\ NotReading
    /\ \E start \in SliceBounds, stop \in SliceBounds, step \in SliceSteps :
         LET r == FillableList_getslice(self, start, stop, step)
         IN  ret' = [op |-> "getslice", args |-> << start, stop, step >>,
                     raised |-> r.raised, value |-> r.value]
    /\ UNCHANGED <<kind, self, file, disk, inputs, calls, iofaults>>

(***************************************************************************)
(* FillableArray                                                           *)
(***************************************************************************)
\* A slot of a numpy.empty array holds whatever the memory held.  Inside an
\* operation such a slot is marked Unset; the action that runs the
\* operation then gives every Unset slot an arbitrary value.
Unset == 0 - 1

\* numpy.empty((n,) + dims, dtype)
NumpyEmpty(n) == Tuple([k \in 1..n |-> Unset])

UnsetSlots(data) ==
    {p \in (1..Len(data)) \X (1..MaxChunk + 1) :
        p[2] <= Len(data[p[1]]) /\ data[p[1]][p[2]] = Unset}

FillSlots(data, junk) ==
    [c \in 1..Len(data) |->
        [i \in 1..Len(data[c]) |->
            IF data[c][i] = Unset THEN junk[<< c, i >>] ELSE data[c][i]]]

UnsetCells(out) == {k \in 1..Len(out) : out[k] = Unset}

FillCells(out, junk) ==
    Tuple([k \in 1..Len(out) |-> IF out[k] = Unset THEN junk[k] ELSE out[k]])

\* FillableArray.__init__
FillableArray_init(chunksize) ==
    [chunksize |-> chunksize, data |-> << NumpyEmpty(chunksize) >>,
     indexinchunk |-> 0, chunkindex |-> 0]

\* FillableArray.__len__
FillableArray_len(s) == s.chunkindex * s.chunksize + s.indexinchunk

\* the element at logical index i (0-based): chunk i // chunksize, slot
\* i % chunksize
FillableArray_at(s, i) == s.data[(i \div s.chunksize) + 1][(i % s.chunksize) + 1]

\* the elements a reader may see
FillableArray_content(s) ==
    [k \in 1..FillableArray_len(s) |-> FillableArray_at(s, k - 1)]

\* while len(self._data) <= chunkindex + 1: self._data.append(numpy.empty(...))
RECURSIVE FillableArray_grow(_, _, _)
FillableArray_grow(data, chunksize, chunkindex) ==
    IF Len(data) <= chunkindex + 1
    THEN FillableArray_grow(Append(data, NumpyEmpty(chunksize)), chunksize, chunkindex)
    ELSE data

\* "possibly add a new chunk": the if-block of append
FillableArray_newchunk(s) ==
    IF s.indexinchunk >= Len(s.data[s.chunkindex + 1])
    THEN [s EXCEPT !.data = FillableArray_grow(s.data, s.chunksize, s.chunkindex),
                   !.indexinchunk = 0,
                   !.chunkindex = s.chunkindex + 1]
    ELSE s

\* FillableArray.append, all of it
FillableArray_append_run(s, value) ==
    LET s1 == FillableArray_newchunk(s)
        s2 == [s1 EXCEPT !.data[s1.chunkindex + 1][s1.indexinchunk + 1] = value]
    IN  [s2 EXCEPT !.indexinchunk = s2.indexinchunk + 1]

\* FillableArray.append cut short by an exception raised by the store of the
\* value (a value the dtype refuses), after the new chunk was added
FillableArray_append_cut(s, value) == FillableArray_newchunk(s)

\* One pass of the while loop of FillableArray.extend over its local
\* variables c = [data, chunkindex, indexinchunk, values].
FillableArray_extend_step(c, chunksize) ==
    LET full == c.indexinchunk >= Len(c.data[c.chunkindex + 1])
        data1 == IF full THEN FillableArray_grow(c.data, chunksize, c.chunkindex)
                 ELSE c.data
        indexinchunk1 == IF full THEN 0 ELSE c.indexinchunk
        chunkindex1 == IF full THEN c.chunkindex + 1 ELSE c.chunkindex
        tofill == Min(Len(c.values), chunksize - indexinchunk1)
        chunk == [i \in 1..chunksize |->
                    IF i > indexinchunk1 /\ i <= indexinchunk1 + tofill
                    THEN c.values[i - indexinchunk1]
                    ELSE data1[chunkindex1 + 1][i]]
    IN  [data |-> [data1 EXCEPT ![chunkindex1 + 1] = chunk],
         chunkindex |-> chunkindex1,
         indexinchunk |-> indexinchunk1 + tofill,
         values |-> Drop(c.values, tofill)]

\* the while loop of FillableArray.extend, stopped after at most n passes
RECURSIVE FillableArray_extend_loop(_, _, _)
FillableArray_extend_loop(c, chunksize, n) ==
    IF Len(c.values) > 0 /\ n > 0
    THEN FillableArray_extend_loop(FillableArray_extend_step(c, chunksize), chunksize, n - 1)
    ELSE c

FillableArray_extend_locals(s, values) ==
    [data |-> s.data, chunkindex |-> s.chunkindex,
     indexinchunk |-> s.indexinchunk, values |-> values]

\* FillableArray.extend, all of it: the loop runs until the values are used
\* up (each pass but the first takes at least one), then the cursors are stored
FillableArray_extend_run(s, values) ==
    LET c == FillableArray_extend_loop(FillableArray_extend_locals(s, values),
                                       s.chunksize, Len(values) + 1)
    IN  [s EXCEPT !.data = c.data,
                  !.chunkindex = c.chunkindex,
                  !.indexinchunk = c.indexinchunk]

\* FillableArray.extend cut short by an exception raised in pass n + 1 of the
\* loop: the chunks are changed, the cursors are not stored
FillableArray_extend_cut(s, values, n) ==
    LET c == FillableArray_extend_loop(FillableArray_extend_locals(s, values),
                                       s.chunksize, n)
    IN  [s EXCEPT !.data = c.data]

\* the number of passes FillableArray.extend makes
RECURSIVE FillableArray_extend_passes(_, _)
FillableArray_extend_passes(c, chunksize) ==
    IF Len(c.values) > 0
    THEN 1 + FillableArray_extend_passes(FillableArray_extend_step(c, chunksize), chunksize)
    ELSE 0

\* The for loop of FillableArray.__getitem__ over the chunks, from chunk
\* `chunkindex` on.  q holds the loop's constants; offset, out and outi are
\* its variables.  The result is the exception raised and the array `out`.
RECURSIVE FillableArray_walk(_, _, _, _, _, _)
FillableArray_walk(s, q, chunkindex, offset, out, outi) ==
    IF (q.step > 0 /\ chunkindex >= q.stop_chunkindex)
       \/ (q.step < 0 /\ chunkindex <= q.stop_chunkindex)
    THEN [raised |-> "", value |-> out]
    ELSE
    LET begin == IF chunkindex = q.start_chunkindex THEN q.start_indexinchunk
                 ELSE IF q.step > 0 THEN offset
                 ELSE s.chunksize - offset
        end == IF q.step > 0
               THEN (IF chunkindex = q.stop_chunkindex - 1 THEN q.stop_indexinchunk
                     ELSE s.chunksize)
               ELSE (IF chunkindex = q.stop_chunkindex + 1 THEN q.stop_indexinchunk
                     ELSE 0)
    IN  \* self._data[chunkindex] of a chunk that was never added
        IF chunkindex + 1 > Len(s.data) THEN [raised |-> "IndexError", value |-> << >>]
        ELSE
        LET array == PySlice(s.data[chunkindex + 1], begin, end, q.step)
            offset1 == PyMod(end - begin, q.step)
            out1 == NumpyAssign(out, outi, array)
            outi1 == outi + Len(array)
        IN  IF ~NumpyAssignOk(Len(out), outi, array)
            THEN [raised |-> "ValueError", value |-> << >>]
            ELSE IF outi1 >= Len(out) THEN [raised |-> "", value |-> out1]
            ELSE FillableArray_walk(s, q, chunkindex + (IF q.step > 0 THEN 1 ELSE 0 - 1),
                                    offset1, out1, outi1)

\* FillableArray.__getitem__ with a slice: the exception raised ("" for none)
\* and the array returned, its slots that were never written Unset.
FillableArray_getslice(s, start, stop, step) ==
    LET lenself == FillableArray_len(s)
        start0 == IF start = None THEN 0 ELSE start[1]
        stop0 == IF stop = None THEN lenself ELSE stop[1]
        step0 == IF step = None THEN 1 ELSE step[1]
        start1 == IF start0 < 0 THEN start0 + lenself ELSE start0
        stop1 == IF stop0 < 0 THEN stop0 + lenself ELSE stop0
        start2 == Min(lenself, Max(0, start1))
        stop2 == Min(lenself, Max(0, stop1))
        length == PyFloorDiv(stop2 - start2, step0)
        q == [step |-> step0,
              start_chunkindex |-> start2 \div s.chunksize,
              start_indexinchunk |-> start2 % s.chunksize,
              stop_chunkindex |-> (stop2 \div s.chunksize) + (IF step0 > 0 THEN 1 ELSE 0 - 1),
              stop_indexinchunk |-> stop2 % s.chunksize]
    IN  IF step0 = 0 THEN [raised |-> "ValueError", value |-> << >>]
        \* numpy.empty refuses a negative dimension
        ELSE IF length < 0 THEN [raised |-> "ValueError", value |-> << >>]
        ELSE FillableArray_walk(s, q, q.start_chunkindex, 0, NumpyEmpty(length), 0)

\* FillableArray.__getitem__ with one index: the range check is made on the
\* normalized index, the chunk and the slot are taken from the index given
FillableArray_getindex(s, index) ==
    LET lenself == FillableArray_len(s)
        normalindex == IF index >= 0 THEN index ELSE index + lenself
        chunkindex == PyFloorDiv(index, s.chunksize)
        indexinchunk == PyMod(index, s.chunksize)
        chunk == PyGetItem(s.data, chunkindex)
    IN  IF ~(0 <= normalindex /\ normalindex < lenself)
        THEN [raised |-> "IndexError", value |-> None]
        ELSE IF chunk.raised # "" THEN chunk
        ELSE PyGetItem(chunk.value[1], indexinchunk)

InitArray ==
    /\ kind = "array"
    /\ \E chunksize \in 1..MaxChunk :
         \E junk \in [UnsetSlots(FillableArray_init(chunksize).data) -> Values] :
            self = [FillableArray_init(chunksize) EXCEPT !.data = FillSlots(@, junk)]
    /\ file = [closed |-> TRUE, pos |-> 0]
    /\ disk = << >>
    /\ inputs = << >>
    /\ calls = "appends"
    /\ ret = Returned("init", << >>, << >>)
    /\ iofaults = 0

\* self' is the fillable s with every Unset slot given some value
ArraySettles(s) ==
    \E junk \in [UnsetSlots(s.data) -> Values] :
        self' = [s EXCEPT !.data = FillSlots(s.data, junk)]

ArrayAppend ==
    /\ kind = "array"
    /\ NotReading
    /\ FillableArray_len(self) < MaxLen
    /\ \E value \in Values :
         /\ ArraySettles(FillableArray_append_run(self, value))
         /\ inputs' = Append(inputs, value)
         /\ ret' = Returned("append", << >>, << >>)
    /\ calls' = AfterAppend
    /\ UNCHANGED <<kind, file, disk, iofaults>>

ArrayAppendRaises ==
    /\ kind = "array"
    /\ NotReading
    /\ FillableArray_len(self) < MaxLen
    /\ \E value \in Values :
         /\ ArraySettles(FillableArray_append_cut(self, value))
         /\ ret' = Raised("append", << >>, "ValueError")
    /\ calls' = "other"
    /\ UNCHANGED <<kind, file, disk, inputs, iofaults>>

ArrayExtend ==
    /\ kind = "array"
    /\ NotReading
    /\ \E values \in Batches(Values) :
         /\ FillableArray_len(self) + Len(values) <= MaxLen
         /\ ArraySettles(FillableArray_extend_run(self, values))
         /\ inputs' = inputs \o values
         /\ ret' = Returned("extend", << >>, << >>)
    /\ calls' = AfterExtend
    /\ UNCHANGED <<kind, file, disk, iofaults>>

ArrayExtendRaises ==
    /\ kind = "array"
    /\ NotReading
    /\ \E values \in Batches(Values) :
         /\ FillableArray_len(self) + Len(values) <= MaxLen
         /\ \E n \in 0..Len(values) :
              /\ n < FillableArray_extend_passes(
                         FillableArray_extend_locals(self, values), self.chunksize)
              /\ ArraySettles(FillableArray_extend_cut(self, values, n))
         /\ ret' = Raised("extend", << >>, "ValueError")
    /\ calls' = "other"
    /\ UNCHANGED <<kind, file, disk, inputs, iofaults>>

ArrayGetIndex ==
    /\ kind = "array"
    /\ NotReading
    /\ \E index \in GetIndices :
         LET r == FillableArray_getindex(self, index)
         IN  ret' = [op |-> "getindex", args |-> << index >>,
                     raised |-> r.raised, value |-> r.value]
    /\ UNCHANGED <<kind, self, file, disk, inputs, calls, iofaults>>

ArrayGetSlice ==
    /\ kind = "array"
    /\ NotReading
    /\ \E start \in SliceBounds, stop \in SliceBounds, step \in SliceSteps :
         LET r == FillableArray_getslice(self, start, stop, step)
         IN  \E junk \in [UnsetCells(r.value) -> Values] :
                ret' = [op |-> "getslice", args |-> << start, stop, step >>,
                        raised |-> r.raised, value |-> FillCells(r.value, junk)]
    /\ UNCHANGED <<kind, self, file, disk, inputs, calls, iofaults>>

(***************************************************************************)
(* FillableFile and FillableNumpyFile                                      *)
(*                                                                         *)
(* An element of a file-backed fillable is the sequence of its items (one  *)
(* item for dims = (), two for dims = (2,)); an item takes itemsize bytes. *)
(* The disk is a sequence of bytes, the file object its open/closed flag   *)
(* and its position.  The file is opened unbuffered (buffering 0), so a    *)
(* write changes the disk at once.                                         *)
(***************************************************************************)
\* the product of the dimensions: the number of items of one element
RECURSIVE Prod(_)
Prod(dims) == IF Len(dims) = 0 THEN 1 ELSE Head(dims) * Prod(Tail(dims))

\* The elements the callers hand to a file-backed fillable.  The code never
\* looks into an element, so the elements are numbered in the order they are
\* handed over and no two items are alike: an element that is lost, repeated
\* or written at another place shows in the content.
Element(t, dims) == Tuple([j \in 1..Prod(dims) |-> Prod(dims) * (t - 1) + j])

\* the dims and the dtype itemsizes (int8, int16) the model constructs files with
DimsChoices == {<< >>, << 2 >>}

ItemSizes == {1, 2}

\* the default of the lendigits parameter
DefaultLenDigits == 16

RECURSIVE Pow(_, _)
Pow(b, n) == IF n = 0 THEN 1 ELSE b * Pow(b, n - 1)

\* the little-endian two's-complement bytes of one item
ItemBytes(v, itemsize) ==
    Tuple([b \in 1..itemsize |-> ((v \div Pow(256, b - 1)) % 256)])

\* the item a run of itemsize bytes stands for
ItemValue(bytes) ==
    LET RECURSIVE Sum(_)
        Sum(b) == IF b > Len(bytes) THEN 0 ELSE bytes[b] * Pow(256, b - 1) + Sum(b + 1)
        u == Sum(1)
    IN  IF u >= Pow(256, Len(bytes)) \div 2 THEN u - Pow(256, Len(bytes)) ELSE u

\* ndarray.tostring() of a sequence of elements: the items in C order
RECURSIVE ItemsOf(_)
ItemsOf(elems) == IF Len(elems) = 0 THEN << >> ELSE Head(elems) \o ItemsOf(Tail(elems))

RECURSIVE BytesOf(_, _)
BytesOf(items, itemsize) ==
    IF Len(items) = 0 THEN << >>
    ELSE ItemBytes(Head(items), itemsize) \o BytesOf(Tail(items), itemsize)

tostring(elems, itemsize) == BytesOf(ItemsOf(elems), itemsize)

\* the disk after `new` is written at byte offset pos (a gap reads as zeros)
WriteAt(bytes, pos, new) ==
    IF Len(new) = 0 THEN bytes
    ELSE Tuple([i \in 1..Max(Len(bytes), pos + Len(new)) |->
                  IF i > pos /\ i <= pos + Len(new) THEN new[i - pos]
                  ELSE IF i <= Len(bytes) THEN bytes[i]
                  ELSE 0])

\* The state an operation of a file-backed fillable works on: the object,
\* the file object, the disk, the exception raised so far ("" for none), the value returned and
\* `budget`, the number of write calls that succeed before one raises
\* IOError (None: every write succeeds).
Op(s, f, d, budget) ==
    [self |-> s, file |-> f, disk |-> d, raised |-> "", value |-> << >>, budget |-> budget]

\* self._file.seek(pos)
FileSeek(o, pos) ==
    IF o.raised # "" THEN o
    ELSE IF o.file.closed THEN [o EXCEPT !.raised = "ValueError"]
    ELSE [o EXCEPT !.file.pos = pos]

\* self._file.write(bytes)
FileWrite(o, bytes) ==
    IF o.raised # "" THEN o
    ELSE IF o.file.closed THEN [o EXCEPT !.raised = "ValueError"]
    ELSE IF o.budget = Some(0) THEN [o EXCEPT !.raised = "IOError"]
    ELSE [o EXCEPT !.disk = WriteAt(o.disk, o.file.pos, bytes),
                   !.file.pos = o.file.pos + Len(bytes),
                   !.budget = IF o.budget = None THEN None ELSE Some(o.budget[1] - 1)]

\* the decimal digits of n >= 0, as ASCII codes
RECURSIVE Digits(_)
Digits(n) == IF n < 10 THEN << 48 + n >> ELSE Digits(n \div 10) \o << 48 + (n % 10) >>

\* "{0:<width>d}".format(n): right-justified, padded with spaces, never cut
Format(n, width) ==
    LET d == Digits(n)
    IN  Tuple([i \in 1..(width - Len(d)) |-> 32]) \o d

\* repr(10**lendigits - 1): lendigits nines
Nines(lendigits) == Tuple([i \in 1..lendigits |-> 57])

\* repr((10**lendigits - 1,) + dims)
RECURSIVE ReprRest(_)
ReprRest(dims) ==
    IF Len(dims) = 0 THEN << >>
    ELSE << 44, 32 >> \o Digits(Head(dims)) \o ReprRest(Tail(dims))

ReprShape(lendigits, dims) ==
    << 40 >> \o Nines(lendigits)
             \o (IF Len(dims) = 0 THEN << 44, 41 >> ELSE ReprRest(dims) \o << 41 >>)

\* b"\x93NUMPY\x01\x00"
Magic == << 147, 78, 85, 77, 80, 89, 1, 0 >>

\* "{'descr': <repr(str(dtype))>, 'fortran_order': False, 'shape': ("
Header1(itemsize) ==
    << 123, 39, 100, 101, 115, 99, 114, 39, 58, 32 >>
    \o (IF itemsize = 1 THEN << 39, 105, 110, 116, 56, 39 >>
        ELSE << 39, 105, 110, 116, 49, 54, 39 >>)
    \o << 44, 32, 39, 102, 111, 114, 116, 114, 97, 110, 95, 111, 114, 100, 101, 114,
          39, 58, 32, 70, 97, 108, 115, 101, 44, 32, 39, 115, 104, 97, 112, 101, 39,
          58, 32, 40 >>

\* "{0}, }}".format(repr(shape))[1:], before the padding
Header2(lendigits, dims) == Tail(ReprShape(lendigits, dims) \o << 44, 32, 125 >>)

\* struct.pack("<H", n)
PackH(n) == << n % 256, (n \div 256) % 256 >>

\* the staging chunk numpy.empty((flushsize,) + dims, dtype) of __init__
StagingEmpty(flushsize, dims) ==
    Tuple([k \in 1..flushsize |-> NumpyEmpty(Prod(dims))])

\* FillableFile.__init__ up to the call of _openfile
FillableFile_fields(flushsize, dims, itemsize) ==
    [data |-> StagingEmpty(flushsize, dims), index |-> 0, indexinchunk |-> 0,
     indexflushed |-> 0, dims |-> dims, itemsize |-> itemsize,
     datapos |-> 0, lenpos |-> 0, formatter |-> 0]

\* FillableFile._openfile: an empty file, no header
FillableFile_openfile(s, lendigits) ==
    [self |-> [s EXCEPT !.datapos = 0],
     file |-> [closed |-> FALSE, pos |-> 0],
     disk |-> << >>]

\* FillableNumpyFile._openfile: the header is written, the count field
\* holding self._index
FillableNumpyFile_openfile(s, lendigits) ==
    LET header1 == Header1(s.itemsize)
        header2 == Header2(lendigits, s.dims)
        unpaddedlen == Len(Magic) + 2 + Len(header1) + Len(header2)
        paddedlen == ((unpaddedlen + s.itemsize - 1) \div s.itemsize) * s.itemsize
        padded2 == header2 \o Tuple([i \in 1..(paddedlen - unpaddedlen) |-> 32])
        written == Magic \o PackH(Len(header1) + Len(padded2)) \o header1
                   \o Format(s.index, lendigits) \o Drop(padded2, lendigits)
    IN  [self |-> [s EXCEPT !.lenpos = Len(Magic) + 2 + Len(header1),
                            !.datapos = Len(Magic) + 2 + Len(header1) + Len(padded2),
                            !.formatter = lendigits],
         file |-> [closed |-> FALSE, pos |-> Len(written)],
         disk |-> written]

\* FillableFile.__len__
FillableFile_len(s) == s.index

\* a flush that forgets to empty the staging chunk: self._indexinchunk = 0
\* is left out
FillableFile_flush_keeps_staged(o) ==
    LET o1 == FileWrite(o, tostring(Take(o.self.data, o.self.indexinchunk), o.self.itemsize))
    IN  IF o1.raised # "" THEN o1
        ELSE [o1 EXCEPT !.self.indexflushed = o1.self.index]

\* FillableFile.flush
FillableFile_flush(o) ==
    LET o1 == FileWrite(o, tostring(Take(o.self.data, o.self.indexinchunk), o.self.itemsize))
    IN  IF o1.raised # "" THEN o1
        ELSE [o1 EXCEPT !.self.indexinchunk = 0, !.self.indexflushed = o1.self.index]

\* a flush that writes the number of the elements flushed before it into the
\* count field, not self._index
FillableNumpyFile_flush_stale_count(o) ==
    LET o1 == FileSeek(o, o.self.datapos + o.self.indexflushed * o.self.itemsize)
        o2 == FileWrite(o1, tostring(Take(o.self.data, o.self.indexinchunk), o.self.itemsize))
        o3 == FileSeek(o2, o.self.lenpos)
        o4 == FileWrite(o3, Format(o.self.indexflushed, o.self.formatter))
    IN  IF o4.raised # "" THEN o4
        ELSE [o4 EXCEPT !.self.indexinchunk = 0, !.self.indexflushed = o4.self.index]

\* a flush that writes the count one byte before self._lenpos
FillableNumpyFile_flush_count_early(o) ==
    LET o1 == FileSeek(o, o.self.datapos + o.self.indexflushed * o.self.itemsize)
        o2 == FileWrite(o1, tostring(Take(o.self.data, o.self.indexinchunk), o.self.itemsize))
        o3 == FileSeek(o2, o.self.lenpos - 1)
        o4 == FileWrite(o3, Format(o.self.index, o.self.formatter))
    IN  IF o4.raised # "" THEN o4
        ELSE [o4 EXCEPT !.self.indexinchunk = 0, !.self.indexflushed = o4.self.index]

\* FillableNumpyFile.flush
FillableNumpyFile_flush(o) ==
    LET o1 == FileSeek(o, o.self.datapos + o.self.indexflushed * o.self.itemsize)
        o2 == FileWrite(o1, tostring(Take(o.self.data, o.self.indexinchunk), o.self.itemsize))
        o3 == FileSeek(o2, o.self.lenpos)
        o4 == FileWrite(o3, Format(o.self.index, o.self.formatter))
    IN  IF o4.raised # "" THEN o4
        ELSE [o4 EXCEPT !.self.indexinchunk = 0, !.self.indexflushed = o4.self.index]

\* self.flush(): the method of the object's class
Flush(o) == IF kind = "numpyfile" THEN FillableNumpyFile_flush(o) ELSE FillableFile_flush(o)

\* FillableFile.append
FillableFile_append(o, value) ==
    \* self._data[self._indexinchunk] = value, past the end of the staging chunk
    IF o.self.indexinchunk >= Len(o.self.data) THEN [o EXCEPT !.raised = "IndexError"]
    ELSE LET o1 == [o EXCEPT !.self.data[o.self.indexinchunk + 1] = value,
                             !.self.index = o.self.index + 1,
                             !.self.indexinchunk = o.self.indexinchunk + 1]
         IN  IF o1.self.indexinchunk >= Len(o1.self.data) THEN Flush(o1) ELSE o1

\* One pass of the while loop of FillableFile.extend over its local variables
\* c = [o, index, indexinchunk, indexflushed, values].
FillableFile_extend_step(c) ==
    LET s == c.o.self
        tofill == Min(Len(c.values), Len(s.data) - c.indexinchunk)
        data1 == Tuple([k \in 1..Len(s.data) |->
                          IF k > c.indexinchunk /\ k <= c.indexinchunk + tofill
                          THEN c.values[k - c.indexinchunk]
                          ELSE s.data[k]])
        oa == [c.o EXCEPT !.self.data = data1]
        index1 == c.index + tofill
        indexinchunk1 == c.indexinchunk + tofill
        values1 == Drop(c.values, tofill)
        ob == FileSeek(oa, s.datapos + c.indexflushed * s.itemsize)
        oc == FileWrite(ob, tostring(Take(data1, indexinchunk1), s.itemsize))
    IN  IF Len(values1) > 0
        THEN [o |-> oc, index |-> index1, values |-> values1,
              indexinchunk |-> IF oc.raised = "" THEN 0 ELSE indexinchunk1,
              indexflushed |-> IF oc.raised = "" THEN index1 ELSE c.indexflushed]
        ELSE [o |-> oa, index |-> index1, values |-> values1,
              indexinchunk |-> indexinchunk1, indexflushed |-> c.indexflushed]

RECURSIVE FillableFile_extend_loop(_)
FillableFile_extend_loop(c) ==
    IF Len(c.values) > 0 /\ c.o.raised = ""
    THEN FillableFile_extend_loop(FillableFile_extend_step(c))
    ELSE c

\* FillableFile.extend: the cursors are stored when the loop ends normally
FillableFile_extend(o, values) ==
    LET c == FillableFile_extend_loop(
                 [o |-> o, index |-> o.self.index, indexinchunk |-> o.self.indexinchunk,
                  indexflushed |-> o.self.indexflushed, values |-> values])
    IN  IF c.o.raised # "" THEN c.o
        ELSE [c.o EXCEPT !.self.index = c.index,
                         !.self.indexinchunk = c.indexinchunk,
                         !.self.indexflushed = c.indexflushed]

\* FillableFile.close: hasattr(self, "_file") holds from construction on
FillableFile_close(o) ==
    LET o1 == Flush(o)
    IN  IF o1.raised # "" THEN o1 ELSE [o1 EXCEPT !.file.closed = TRUE]

\* the element at index i (0-based) of the array of n elements that starts
\* at byte offset datapos of the disk
DiskElement(d, s, i) ==
    Tuple([j \in 1..Prod(s.dims) |->
             LET at == s.datapos + (i * Prod(s.dims) + (j - 1)) * s.itemsize
             IN  IF at + s.itemsize <= Len(d)
                 THEN ItemValue(SubSeq(d, at + 1, at + s.itemsize))
                 ELSE Unset])

\* numpy.memmap(self._filename, self.dtype, "r", self._datapos,
\*              (len(self),) + self.dims, "C")
MemmapOk(d, s) ==
    LET bytes == s.datapos + FillableFile_len(s) * Prod(s.dims) * s.itemsize
    IN  \* mmap of zero bytes maps the whole file and refuses an empty file
        IF bytes = 0 THEN Len(d) > 0 ELSE bytes <= Len(d)

Memmap(d, s) == Tuple([k \in 1..FillableFile_len(s) |-> DiskElement(d, s, k - 1)])

\* array[slice(start, stop, step)] with None for a missing part
PySliceOpt(seq, start, stop, step) ==
    LET step0 == IF step = None THEN 1 ELSE step[1]
        start0 == IF start = None THEN (IF step0 > 0 THEN 0 ELSE Len(seq) - 1)
                  ELSE PySliceStart(Len(seq), start[1], step0)
        stop0 == IF stop = None THEN (IF step0 > 0 THEN Len(seq) ELSE 0 - 1)
                 ELSE PySliceStart(Len(seq), stop[1], step0)
        count == IF step0 > 0
                 THEN (IF start0 < stop0 THEN (stop0 - start0 + step0 - 1) \div step0 ELSE 0)
                 ELSE (IF stop0 < start0 THEN (start0 - stop0 - step0 - 1) \div (0 - step0)
                       ELSE 0)
    IN  Tuple([k \in 1..count |-> seq[start0 + (k - 1) * step0 + 1]])

\* FillableFile.__getitem__ with a slice: o.value is the array returned
FillableFile_getslice(o, start, stop, step) ==
    LET o1 == IF ~o.file.closed THEN Flush(o) ELSE o
    IN  IF o1.raised # "" THEN [o1 EXCEPT !.value = << >>]
        ELSE IF ~MemmapOk(o1.disk, o1.self)
             THEN [o1 EXCEPT !.raised = "ValueError", !.value = << >>]
        ELSE IF step # None /\ step = Some(0)
             THEN [o1 EXCEPT !.raised = "ValueError", !.value = << >>]
        ELSE [o1 EXCEPT !.value = PySliceOpt(Memmap(o1.disk, o1.self), start, stop, step)]

\* FillableFile.__getitem__ with one index: after the flush the name `index`
\* is read, which the method does not define
FillableFile_getindex(o, value) ==
    LET o1 == IF ~o.file.closed THEN Flush(o) ELSE o
    IN  IF o1.raised # "" THEN o1 ELSE [o1 EXCEPT !.raised = "NameError"]

\* the elements a reader may see: the flushed ones on the disk, then those
\* staged in the chunk
FillableFile_content(s, d) ==
    Tuple([k \in 1..FillableFile_len(s) |->
             IF k <= s.indexflushed THEN DiskElement(d, s, k - 1)
             ELSE IF k - s.indexflushed <= Len(s.data) THEN s.data[k - s.indexflushed]
             ELSE NumpyEmpty(Prod(s.dims))])

FileKinds == {"file", "numpyfile"}

\* the largest number of values handed to one extend call of a file-backed
\* fillable: one more than two staging chunks of two elements take
MaxFileBatch == 4

\* the number of the next element handed over; the numbers of a call that
\* failed with an I/O error are not used again
NextNumber == Len(inputs) + 1 + iofaults * MaxFileBatch

\* the batch of n elements handed over next
NextBatch(n, dims) == Tuple([k \in 1..n |-> Element(NextNumber + k - 1, dims)])

\* when the I/O fails in a call: never, or at the write after k good ones
MaxGoodWrites == 1

\* the largest number of writes the environment makes fail in one behaviour
MaxFaults == 1

Budgets ==
    {None} \cup {Some(k) : k \in {j \in 0..MaxGoodWrites : iofaults < MaxFaults}}

\* the single indices asked of a file-backed fillable
FileIndices == {0}

\* the slices asked of a file-backed fillable: [:] and [1::-1]
FileSlices == {<< None, None, None >>, << Some(1), None, Some(0 - 1) >>}

InitFile ==
    /\ kind \in FileKinds
    /\ \E flushsize \in 1..MaxChunk, dims \in DimsChoices, itemsize \in ItemSizes :
         LET fields == FillableFile_fields(flushsize, dims, itemsize)
             opened == IF kind = "numpyfile"
                       THEN FillableNumpyFile_openfile(fields, DefaultLenDigits)
                       ELSE FillableFile_openfile(fields, DefaultLenDigits)
         IN  /\ self = opened.self
             /\ file = opened.file
             /\ disk = opened.disk
    /\ inputs = << >>
    /\ calls = "appends"
    /\ ret = Returned("init", << >>, << >>)
    /\ iofaults = 0

\* the object, the file object and the disk are left as the operation left them
FileSettles(o) ==
    /\ self' = o.self
    /\ file' = o.file
    /\ disk' = o.disk
    /\ iofaults' = IF o.raised = "IOError" THEN iofaults + 1 ELSE iofaults

FileAppend ==
    /\ kind \in FileKinds
    /\ self.index < MaxLen
    /\ \E budget \in Budgets :
         LET value == Element(NextNumber, self.dims)
             o == FillableFile_append(Op(self, file, disk, budget), value)
         IN  /\ FileSettles(o)
             /\ inputs' = IF o.raised = "" THEN Append(inputs, value) ELSE inputs
             /\ calls' = IF o.raised = "" THEN AfterAppend ELSE "other"
             /\ ret' = [op |-> "append", args |-> << >>, raised |-> o.raised, value |-> << >>]
    /\ UNCHANGED kind

FileExtend ==
    /\ kind \in FileKinds
    /\ \E n \in 0..MaxFileBatch, budget \in Budgets :
         /\ self.index + n <= MaxLen
         /\ LET values == NextBatch(n, self.dims)
                o == FillableFile_extend(Op(self, file, disk, budget), values)
            IN  /\ FileSettles(o)
                /\ inputs' = IF o.raised = "" THEN inputs \o values ELSE inputs
                /\ calls' = IF o.raised = "" THEN AfterExtend ELSE "other"
                /\ ret' = [op |-> "extend", args |-> << >>, raised |-> o.raised,
                           value |-> << >>]
    /\ UNCHANGED kind

FileFlush ==
    /\ kind \in FileKinds
    /\ \E budget \in Budgets :
         LET o == Flush(Op(self, file, disk, budget))
         IN  /\ FileSettles(o)
             /\ ret' = [op |-> "flush", args |-> << >>, raised |-> o.raised, value |-> << >>]
    /\ calls' = "other"
    /\ UNCHANGED <<kind, inputs>>

FileGetSlice ==
    /\ kind \in FileKinds
    /\ \E slice \in FileSlices, budget \in Budgets :
         LET o == FillableFile_getslice(Op(self, file, disk, budget),
                                        slice[1], slice[2], slice[3])
         IN  /\ FileSettles(o)
             /\ ret' = [op |-> "getslice", args |-> slice,
                        raised |-> o.raised, value |-> o.value]
    /\ calls' = "other"
    /\ UNCHANGED <<kind, inputs>>

FileGetIndex ==
    /\ kind \in FileKinds
    /\ \E index \in FileIndices, budget \in Budgets :
         LET o == FillableFile_getindex(Op(self, file, disk, budget), index)
         IN  /\ FileSettles(o)
             /\ ret' = [op |-> "getindex", args |-> << index >>,
                        raised |-> o.raised, value |-> o.value]
    /\ calls' = "other"
    /\ UNCHANGED <<kind, inputs>>

\* close(), also as called by __exit__
FileClose ==
    /\ kind \in FileKinds
    /\ \E budget \in Budgets :
         LET o == FillableFile_close(Op(self, file, disk, budget))
         IN  /\ FileSettles(o)
             /\ ret' = [op |-> "close", args |-> << file.closed >>, raised |-> o.raised,
                        value |-> << >>]
    /\ calls' = "other"
    /\ UNCHANGED <<kind, inputs>>

Init == InitList \/ InitArray \/ InitFile

Next ==
    \/ ListAppend
    \/ ListAppendRaises
    \/ ListExtend
    \/ ListExtendRaises
    \/ ArrayAppend
    \/ ArrayAppendRaises
    \/ ArrayExtend
    \/ ArrayExtendRaises
    \/ ListGetIndex
    \/ ArrayGetIndex
    \/ FileAppend
    \/ FileExtend
    \/ FileFlush
    \/ FileGetSlice
    \/ FileGetIndex
    \/ FileClose

\* every fillable under its writes, their failures included, the reads of
\* one index and the slice reads of the file-backed ones (which flush)
Spec == Init /\ [][Next]_vars

NextSlice ==
    \/ ListAppend
    \/ ListExtend
    \/ ArrayAppend
    \/ ArrayExtend
    \/ ListGetSlice
    \/ ArrayGetSlice

InitSlice == InitList \/ InitArray

\* the in-memory fillables under their writes and their slice reads
SpecSlice == InitSlice /\ [][NextSlice]_vars

(***************************************************************************)
(* The schema walk: _makefillables and the four functions that call it.    *)
(*                                                                         *)
(* The schema and its generator belong to the oamap package, outside this  *)
(* file.  A schema node is a record: its type, whether it is nullable, the *)
(* dtype ("" for None) and dims (None or Some(dims)) of a primitive, its   *)
(* content nodes and, for a pointer, whether it points back into the tree. *)
(* The generator of a node carries the same and the names of the arrays    *)
(* the node needs; a name is the path to the node followed by a letter for *)
(* the array, so no two names of one tree are alike.  For a walk, `kind`   *)
(* is "schema", `self` holds the arguments of the call and `ret.value` the *)
(* mapping returned, a function from names to the fillables made.  The     *)
(* directory and the files the file-backed constructors create are not     *)
(* represented.                                                            *)
(***************************************************************************)
Node(type, nullable, content) ==
    [type |-> type, nullable |-> nullable, dtype |-> "int32", dims |-> Some(<< >>),
     content |-> content, internal |-> FALSE]

PrimitiveSchemas ==
    {Node("Primitive", n, << >>) : n \in BOOLEAN}
    \cup {[Node("Primitive", FALSE, << >>) EXCEPT !.dtype = ""],
          [Node("Primitive", FALSE, << >>) EXCEPT !.dims = None]}

ListSchemas == {Node("List", n, << c >>) : n \in BOOLEAN, c \in PrimitiveSchemas}

PointerSchemas ==
    {[Node("Pointer", FALSE, << c >>) EXCEPT !.internal = i] :
        i \in BOOLEAN, c \in PrimitiveSchemas}

UnionSchemas == {Node("Union", FALSE, << c, d >>) : c \in PrimitiveSchemas, d \in PrimitiveSchemas}

FieldSchemas == PrimitiveSchemas \cup ListSchemas

RecordSchemas == {Node("Record", FALSE, << c, d >>) : c \in FieldSchemas, d \in FieldSchemas}

TupleSchemas == {Node("Tuple", FALSE, << c, d >>) : c \in PrimitiveSchemas, d \in PrimitiveSchemas}

\* the schemas walked; the last is a node of a type the walk does not know
Schemas ==
    PrimitiveSchemas \cup ListSchemas \cup PointerSchemas \cup UnionSchemas
    \cup RecordSchemas \cup TupleSchemas \cup {Node("Other", FALSE, << >>)}

\* schema.generator(): the generator of the node reached by the path `name`
RECURSIVE generator(_, _)
generator(schema, name) ==
    [type |-> schema.type, masked |-> schema.nullable,
     dtype |-> schema.dtype, dims |-> schema.dims, internal |-> schema.internal,
     mask |-> name \o << "M" >>, data |-> name \o << "D" >>,
     starts |-> name \o << "B" >>, stops |-> name \o << "E" >>,
     tags |-> name \o << "T" >>, offsets |-> name \o << "O" >>,
     positions |-> name \o << "P" >>,
     content |-> [i \in 1..Len(schema.content) |->
                     generator(schema.content[i], name \o << ToString(i) >>)]]

\* fillables[name] = makefillable(name, dtype, dims)
Put(fillables, makefillable, name, dtype, dims) ==
    (name :> [class |-> makefillable, dtype |-> dtype, dims |-> dims]) @@ fillables

\* _makefillables with the recursion into the content of a list left out
RECURSIVE makefillables(_, _, _, _, _)
RECURSIVE makefillables_each(_, _, _, _, _)
makefillables_skips_list_content(gen, fillables, makefillable, liststarts, unionoffsets) ==
    IF gen.type = "List"
    THEN LET f1 == IF liststarts
                   THEN Put(fillables, makefillable, gen.starts, gen.dtype, << >>)
                   ELSE fillables
         IN  [raised |-> "",
              fillables |-> Put(f1, makefillable, gen.stops, gen.dtype, << >>)]
    ELSE makefillables_each(gen.content, fillables, makefillable, liststarts, unionoffsets)

\* _makefillables: the exception raised ("" for none) and the dict `fillables`
\* as the call leaves it
makefillables(gen, fillables, makefillable, liststarts, unionoffsets) ==
    LET f0 == IF gen.masked
              THEN Put(fillables, makefillable, gen.mask, "bool", << >>)
              ELSE fillables
    IN  CASE gen.type = "Primitive" ->
               IF gen.dtype = "" \/ gen.dims = None
               THEN [raised |-> "ValueError", fillables |-> f0]
               ELSE [raised |-> "",
                     fillables |-> Put(f0, makefillable, gen.data, gen.dtype, gen.dims[1])]
          [] gen.type = "List" ->
               LET f1 == IF liststarts
                         THEN Put(f0, makefillable, gen.starts, gen.dtype, << >>)
                         ELSE f0
                   f2 == Put(f1, makefillable, gen.stops, gen.dtype, << >>)
               IN  makefillables(gen.content[1], f2, makefillable, liststarts, unionoffsets)
          [] gen.type = "Union" ->
               LET f1 == Put(f0, makefillable, gen.tags, gen.dtype, << >>)
                   f2 == IF unionoffsets
                         THEN Put(f1, makefillable, gen.offsets, gen.dtype, << >>)
                         ELSE f1
               IN  makefillables_each(gen.content, f2, makefillable, liststarts, unionoffsets)
          [] gen.type \in {"Record", "Tuple"} ->
               makefillables_each(gen.content, f0, makefillable, liststarts, unionoffsets)
          [] gen.type = "Pointer" ->
               LET f1 == Put(f0, makefillable, gen.positions, gen.dtype, << >>)
               IN  IF ~gen.internal
                   THEN makefillables(gen.content[1], f1, makefillable, liststarts,
                                      unionoffsets)
                   ELSE [raised |-> "", fillables |-> f1]
          [] OTHER -> [raised |-> "AssertionError", fillables |-> f0]

\* the for loops of _makefillables: one generator after the other, until
\* one raises
makefillables_each(gens, fillables, makefillable, liststarts, unionoffsets) ==
    IF Len(gens) = 0 THEN [raised |-> "", fillables |-> fillables]
    ELSE LET first == makefillables(Head(gens), fillables, makefillable, liststarts,
                                    unionoffsets)
         IN  IF first.raised # "" THEN first
             ELSE makefillables_each(Tail(gens), first.fillables, makefillable,
                                     liststarts, unionoffsets)

\* a call of one of the four functions is about to be made
InitWalk ==
    /\ kind = "schema"
    /\ \E schema \in Schemas, liststarts \in BOOLEAN, unionoffsets \in BOOLEAN :
         self = [schema |-> schema, liststarts |-> liststarts,
                 unionoffsets |-> unionoffsets]
    /\ file = [closed |-> TRUE, pos |-> 0]
    /\ disk = << >>
    /\ inputs = << >>
    /\ calls = "other"
    /\ ret = Returned("init", << >>, << >>)
    /\ iofaults = 0

\* the body the four functions share: the generator is made of the schema,
\* the walk fills a new dict, which is returned
Walked(op, makefillable) ==
    LET made == makefillables(generator(self.schema, << "object" >>), << >>,
                              makefillable, self.liststarts, self.unionoffsets)
    IN  [op |-> op, args |-> << >>, raised |-> made.raised,
         value |-> IF made.raised = "" THEN made.fillables ELSE << >>]

fillablelists ==
    /\ kind = "schema"
    /\ ret.op = "init"
    /\ ret' = Walked("fillablelists", "FillableList")
    /\ UNCHANGED <<kind, self, file, disk, inputs, calls, iofaults>>

fillablearrays ==
    /\ kind = "schema"
    /\ ret.op = "init"
    /\ ret' = Walked("fillablearrays", "FillableArray")
    /\ UNCHANGED <<kind, self, file, disk, inputs, calls, iofaults>>

fillablefiles ==
    /\ kind = "schema"
    /\ ret.op = "init"
    /\ ret' = Walked("fillablefiles", "FillableFile")
    /\ UNCHANGED <<kind, self, file, disk, inputs, calls, iofaults>>

fillablenumpyfiles ==
    /\ kind = "schema"
    /\ ret.op = "init"
    /\ ret' = Walked("fillablenumpyfiles", "FillableNumpyFile")
    /\ UNCHANGED <<kind, self, file, disk, inputs, calls, iofaults>>

NextWalk ==
    \/ fillablelists
    \/ fillablearrays
    \/ fillablefiles
    \/ fillablenumpyfiles

\* the schema walk over every schema of Schemas and every choice of options
SpecWalk == InitWalk /\ [][NextWalk]_vars

\* len() and the elements a reader may see
Length ==
    IF kind = "list" THEN FillableList_len(self)
    ELSE IF kind = "array" THEN FillableArray_len(self)
    ELSE FillableFile_len(self)

Content ==
    IF kind = "list" THEN FillableList_content(self)
    ELSE IF kind = "array" THEN FillableArray_content(self)
    ELSE FillableFile_content(self, disk)

(***************************************************************************)
(* The properties.                                                         *)
(***************************************************************************)
\* the last call was the slice read [start:stop:step] of a fillable of class
\* k, with three integers
SliceRead(k) ==
    /\ kind = k
    /\ ret.op = "getslice"
    /\ ret.args[1] # None
    /\ ret.args[2] # None
    /\ ret.args[3] # None

\* that slice goes upwards from a start >= 0 and selects something
SliceUp ==
    /\ ret.args[3][1] > 0
    /\ ret.args[1][1] >= 0
    /\ Min(ret.args[1][1], Length) < Min(ret.args[2][1], Length)

\* that slice goes downwards to a stop >= 0 and selects something
SliceDown ==
    /\ ret.args[3][1] < 0
    /\ ret.args[2][1] >= 0
    /\ Min(ret.args[1][1], Length - 1) > ret.args[2][1]

\* the elements the slice selects from the logical sequence
SliceOfContent == PySlice(Content, ret.args[1][1], ret.args[2][1], ret.args[3][1])

\* the last call was made on a file-backed fillable
FileCall(op) == kind \in FileKinds /\ ret.op = op

\* the bytes of the file from datapos on are those of the elements handed over
DataRegionIsInputs ==
    /\ Len(disk) = self.datapos + Len(inputs) * Prod(self.dims) * self.itemsize
    /\ \A k \in 1..Len(inputs) : DiskElement(disk, self, k - 1) = inputs[k]

\* C1: for every backing strategy, after n successful appends followed by
\* one successful extend of m values, len() is n + m and the elements at the
\* logical indices 0..n+m-1 are the inputs in call order.
C1_AppendsThenExtend ==
    (calls = "extended" /\ ret.raised = "") =>
        (Length = Len(inputs) /\ Content = inputs)

\* C2: a FillableArray slice read with step > 0 that selects something
\* returns, without an error, exactly the elements at start, start + step,
\* ... below stop of the logical sequence.
C2_ArraySliceUp ==
    (SliceRead("array") /\ SliceUp) =>
        (ret.raised = "" /\ ret.value = SliceOfContent)

\* C3: a FillableArray slice read with step < 0 and start > stop returns,
\* without an error, exactly the elements at start, start + step, ... above
\* stop of the logical sequence, none skipped and every slot filled.
C3_ArraySliceDown ==
    (SliceRead("array") /\ SliceDown) =>
        (ret.raised = "" /\ ret.value = SliceOfContent)

\* C4: a FillableList slice read with step # 0 succeeds and returns exactly
\* the elements of committed[start:stop:step], also when the step does not
\* divide stop - start.
C4_ListSlice ==
    (SliceRead("list") /\ (SliceUp \/ SliceDown)) =>
        (ret.raised = "" /\ ret.value = SliceOfContent)

\* C5: for FillableList and FillableArray, a failed append or extend leaves
\* len() and the elements below len() as they were, and the calls that
\* succeed afterwards leave the length and content of a run without the
\* failed call: in every state the content is the sequence of the elements
\* accepted by the calls that returned.
C5_InMemoryRecovery ==
    kind \in {"list", "array"} => (Length = Len(inputs) /\ Content = inputs)

\* a FillableList extend has failed after it added elements to the backing
\* list above the committed ones
C5_Witness ==
    /\ kind = "list"
    /\ ret.op = "extend"
    /\ ret.raised # ""
    /\ self.index > 0
    /\ Len(self.data) > self.index

\* C6: a file-backed append whose flush fails with an I/O error leaves
\* len(), index and indexinchunk as they were before the call.
C6_AppendFlushFails ==
    [][(FileCall("append")' /\ ret'.raised = "IOError") =>
          (/\ Length' = Length
           /\ self'.index = self.index
           /\ self'.indexinchunk = self.indexinchunk)]_vars

\* C7: a file-backed extend that fails after at least one internal chunk
\* write leaves index, indexinchunk and indexflushed unchanged and every
\* element below len() with its value, in the file and in the staging chunk.
\* (Scalar elements, for which the writes land at the offsets they should.)
C7_ExtendFailsAfterWrite ==
    [][(/\ FileCall("extend")'
        /\ ret'.raised = "IOError"
        /\ self.dims = << >>
        /\ disk' # disk) =>
          (/\ self'.index = self.index
           /\ self'.indexinchunk = self.indexinchunk
           /\ self'.indexflushed = self.indexflushed
           /\ Content' = Content)]_vars

\* C8: after successful append, extend and flush calls followed by close,
\* the data region of the file holds exactly len() elements, in input order,
\* whatever the dims of an element.
C8_FileRoundTrip ==
    (/\ FileCall("close")
     /\ ret.args = << FALSE >>
     /\ ret.raised = ""
     /\ iofaults = 0) =>
        (Length = Len(inputs) /\ DataRegionIsInputs)

\* C9: close on a file-backed fillable that is already closed raises no
\* error.
C9_SecondClose ==
    (FileCall("close") /\ ret.args = << TRUE >>) => ret.raised = ""

\* C10: after every successfully completed operation on a file-backed
\* fillable, indexflushed <= index and index - indexflushed = indexinchunk.
C10_CursorInvariant ==
    (kind \in FileKinds /\ ret.raised = "") =>
        (/\ self.indexflushed <= self.index
         /\ self.index - self.indexflushed = self.indexinchunk)

\* an extend has returned after it wrote chunks to the file and left
\* elements staged
C10_Witness ==
    /\ FileCall("extend")
    /\ ret.raised = ""
    /\ self.indexflushed > 0
    /\ self.indexinchunk > 0

\* the bytes of the count field of the header of a FillableNumpyFile
CountField == SubSeq(disk, self.lenpos + 1, self.lenpos + self.formatter)

\* text without its leading spaces
RECURSIVE Stripped(_)
Stripped(text) ==
    IF Len(text) > 0 /\ Head(text) = 32 THEN Stripped(Tail(text)) ELSE text

\* the text is spaces followed by at least one decimal digit
Numeric(text) ==
    /\ Len(Stripped(text)) > 0
    /\ \A i \in 1..Len(Stripped(text)) : Stripped(text)[i] \in 48..57

\* the number a run of decimal digits stands for
RECURSIVE DigitsValue(_)
DigitsValue(digits) ==
    IF Len(digits) = 0 THEN 0
    ELSE 10 * DigitsValue(SubSeq(digits, 1, Len(digits) - 1)) + (digits[Len(digits)] - 48)

\* int(text)
ParseCount(text) == DigitsValue(Stripped(text))

\* the last call ran a flush to its end: flush or close itself, an append
\* that filled the staging chunk, or a slice read of an open file
FlushDone ==
    \/ ret.op \in {"flush", "close"} /\ ret.raised = ""
    \/ ret.op = "append" /\ ret.raised = "" /\ self.indexinchunk = 0
    \/ ret.op = "getslice" /\ ~file.closed /\ ret.raised # "IOError"

\* C11: after every flush of a FillableNumpyFile (explicit, by an append that
\* fills the staging chunk, by a slice read or by close) the count field at
\* lenpos is lendigits bytes of decimal text whose value is len().
C11_HeaderCountAfterFlush ==
    (kind = "numpyfile" /\ FlushDone) =>
        (/\ Len(CountField) = self.formatter
         /\ Numeric(CountField)
         /\ ParseCount(CountField) = Length)

\* an append has filled the staging chunk of a FillableNumpyFile that had
\* elements flushed before, and has flushed it
C11_Witness ==
    /\ kind = "numpyfile"
    /\ ret.op = "append"
    /\ ret.raised = ""
    /\ self.indexinchunk = 0
    /\ Len(self.data) >= 2
    /\ self.index > Len(self.data)

\* the bytes FillableNumpyFile._openfile wrote when the object was made
HeaderAtConstruction ==
    FillableNumpyFile_openfile(
        FillableFile_fields(Len(self.data), self.dims, self.itemsize),
        self.formatter).disk

\* C12: in a FillableNumpyFile, whatever calls are made, every byte of the
\* header [0, datapos) outside the count field keeps the value written at
\* construction, and the count field holds decimal text, never element data.
C12_HeaderImmutable ==
    kind = "numpyfile" =>
        LET header == HeaderAtConstruction
            after == self.lenpos + self.formatter
        IN  /\ Len(disk) >= self.datapos
            /\ SubSeq(disk, 1, self.lenpos) = SubSeq(header, 1, self.lenpos)
            /\ SubSeq(disk, after + 1, self.datapos) = SubSeq(header, after + 1, self.datapos)
            /\ Numeric(CountField)

\* a FillableNumpyFile has written chunks from inside an extend and then
\* rewritten its count field
C12_Witness ==
    /\ kind = "numpyfile"
    /\ FlushDone
    /\ self.indexflushed > Len(self.data)
    /\ ParseCount(CountField) > 0

\* the last call read the one index the fillable of class k was given
IndexRead(k) == kind = k /\ ret.op = "getindex"

\* that index is in range: -len() <= index < len()
IndexInRange == 0 - Length <= ret.args[1] /\ ret.args[1] < Length

\* the element at the logical position the index stands for
ElementAtIndex ==
    Content[(IF ret.args[1] < 0 THEN ret.args[1] + Length ELSE ret.args[1]) + 1]

\* C13: FillableArray get with one index i, -len() <= i < len(), returns
\* the element at logical position i (i + len() for a negative i), never an
\* uninitialized slot; any other i fails with an index-out-of-range error.
C13_ArrayGetIndex ==
    IndexRead("array") =>
        IF IndexInRange
        THEN ret.raised = "" /\ ret.value = Some(ElementAtIndex)
        ELSE ret.raised = "IndexError"

\* C14: FillableList get with one index never shows uncommitted data: for
\* i >= len() or i < -len() it fails with an index-out-of-range error, and
\* for an i in range it returns the committed element at i (i + len() for a
\* negative i), also after a failed call left elements above the cursor.
C14_ListGetIndex ==
    IndexRead("list") =>
        IF IndexInRange
        THEN ret.raised = "" /\ ret.value = Some(ElementAtIndex)
        ELSE ret.raised = "IndexError"

\* the slice read had a step # 0 and bounds >= 0 between which, after
\* clamping, no element lies in the direction of the step
SliceSelectsNothing ==
    /\ ret.args[3][1] # 0
    /\ ret.args[1][1] >= 0
    /\ ret.args[2][1] >= 0
    /\ Len(SliceOfContent) = 0

\* C15: a FillableList or FillableArray slice read never fails because of
\* its bounds: when the clamped range selects nothing in the direction of
\* the step, the result is an empty array, not an error.
C15_EmptySlice ==
    ((SliceRead("list") \/ SliceRead("array")) /\ SliceSelectsNothing) =>
        (ret.raised = "" /\ ret.value = << >>)

\* the schema walked is a record of one primitive field and one field that
\* is a list of primitives, none nullable and every dtype and dims known
PrimitiveAndListRecord ==
    LET primitive == Node("Primitive", FALSE, << >>)
        list == Node("List", FALSE, << primitive >>)
    IN  /\ kind = "schema"
        /\ self.schema \in {Node("Record", FALSE, << primitive, list >>),
                            Node("Record", FALSE, << list, primitive >>)}

\* the last call was a walk that returned its mapping
WalkReturned == kind = "schema" /\ ret.op # "init" /\ ret.raised = ""

\* the number of storage keys of the mapping returned
KeyCount == Cardinality(DOMAIN ret.value)

\* C16: for a record of one primitive field and one list-of-primitive
\* field the walk returns a mapping with exactly 3 keys when liststarts is
\* False (the values of the field, the stops of the list, the values of the
\* list content) and exactly 4 when liststarts is True (the starts too).
C16_KeyCount ==
    (PrimitiveAndListRecord /\ WalkReturned) =>
        KeyCount = (IF self.liststarts THEN 4 ELSE 3)

\* C16 as stated: exactly 2 keys when liststarts is False and exactly 3
\* when it is True.
C16_KeyCountAsStated ==
    (PrimitiveAndListRecord /\ WalkReturned) =>
        KeyCount = (IF self.liststarts THEN 3 ELSE 2)

\* such a record has been walked with liststarts True
C16_Witness ==
    /\ PrimitiveAndListRecord
    /\ WalkReturned
    /\ self.liststarts

\* C17: for every backing strategy and every call, successful or failed,
\* len() never decreases from one state to the next and increases only by
\* an append or extend that returns without error.
C17_LengthMonotonic ==
    [][/\ Length' >= Length
       /\ Length' > Length => (ret'.op \in {"append", "extend"} /\ ret'.raised = "")]_vars

\* C18: file-backed get with one index in range, when no I/O fails, returns
\* the element appended at that index, with the file open or closed.
C18_FileGetIndex ==
    (FileCall("getindex") /\ IndexInRange /\ iofaults = 0) =>
        (ret.raised = "" /\ ret.value = Some(ElementAtIndex))

\* C19: after every successfully completed append, extend or flush of a
\* file-backed fillable the staging chunk has a free slot: indexinchunk <
\* flushsize.
C19_StagingHasFreeSlot ==
    (kind \in FileKinds /\ ret.op \in {"append", "extend", "flush"} /\ ret.raised = "") =>
        self.indexinchunk < Len(self.data)

\* C20: after every successfully completed operation on a
\* FillableNumpyFile the count field of the header equals indexflushed, the
\* number of elements written to the data region.
C20_HeaderCountIsFlushed ==
    (kind = "numpyfile" /\ ret.raised = "") =>
        (Numeric(CountField) /\ ParseCount(CountField) = self.indexflushed)

====
